---- MODULE Spec2Model ----
(***************************************************************************)
(* ArchiveSearchAgent.plan (blackhole_core/agents/archive_search_agent.py) *)
(* as a state machine: the query check, the read of the archive CSV, the   *)
(* scan of the rows (one row per step, the fields of a row in column       *)
(* order), and the construction of the returned dict.                      *)
(*                                                                         *)
(* Python values are records tagged by "kind"; a Python str read from a    *)
(* cell is a sequence of one-character strings, so that lower() and        *)
(* strip() are computed.  The two rapidfuzz functions are library code:    *)
(* they are functions of their two arguments with values in 0..100, fixed  *)
(* for a behaviour and otherwise arbitrary (fuzz_scores).                  *)
(*                                                                         *)
(* Spec is one call of plan() on a constructed agent.  SpecKeys, SpecCase  *)
(* and SpecPad are the same call on other inputs (column names a cell can  *)
(* spell, queries in two cases, padded queries).  SpecCalls adds the       *)
(* caller: construction, repeated calls, the save of the report, edits of  *)
(* the archive between calls.  SpecConc is two invocations interleaved.    *)
(* SpecTypes is the call on cells of several Python types.                 *)
(*                                                                         *)
(* The MCP side of the repository is modelled next to it: BaseMCPAgent     *)
(* (agents/base_agent.py) in SpecAgents, and production_mcp_server.py in   *)
(* SpecCommand (POST /api/mcp/command), SpecManager (the operations of     *)
(* ProductionAgentManager, one after the other) and SpecMonitor (the       *)
(* background health monitor interleaved with management requests).        *)
(***************************************************************************)
EXTENDS Integers, Sequences, FiniteSets, TLC

VARIABLES
    document_text,  \* query['document_text'], the caller's text
    threshold,      \* the similarity threshold of the scan
    fuzz_scores,    \* rapidfuzz: [s1 -> [s2 -> <<token_set_ratio, partial_ratio>>]]
    archive,        \* the CSV file at self.archive_path
    pc,             \* position in plan(): "start", "read", "scan", "done", "raised"
    df,             \* the DataFrame read from the archive
    row_idx,        \* the row df.iterrows() yields next
    matches,        \* the list of matches, each with the index of its row
    scored,         \* log of the fields scored: row, col, similarity, hit
    result,         \* the value plan() returned
    raised,         \* the exception that left plan(), "" when none
    clock,          \* the wall clock datetime.now() reads
    agent,          \* self: memory, source, archive_path, client
    mongo_client,   \* the module's cached _client (data_source/mongodb.py)
    collection,     \* the agent_outputs collection, written by the callers
    calls,          \* the calls of plan() this caller has made
    prev,           \* what the caller keeps of its previous call
    other,          \* the locals of a second, concurrent invocation
    message_handlers,       \* BaseMCPAgent: per agent, the methods with a handler
    agent_registry,         \* BaseMCPAgent: per agent, its registry or None
    delivered,              \* the messages process_message received in the last call
    reply,                  \* what the last call of an agent method returned or raised
    server_ready,           \* production_mcp_server: set at the end of startup
    mongodb_integration,    \* production_mcp_server: the storage integration or None
    loaded_agents,          \* ProductionAgentManager: ids, in insertion order
    failed_agents,          \* ProductionAgentManager: ids whose load raised
    agent_health_status,    \* ProductionAgentManager: id -> status, failure_count
    agent_metadata_cache,   \* ProductionAgentManager: id -> folder
    agent_files,            \* the agent modules on disk: what loading them does
    monitor,                \* the locals of background_health_monitor
    request,                \* the locals of the request being served
    unhealthy_rounds        \* per agent, its consecutive unhealthy health checks

plan_vars == <<pc, df, row_idx, matches, scored, result, raised>>

input_vars == <<document_text, threshold, fuzz_scores>>

shared_vars == <<archive, agent, mongo_client, collection>>

caller_vars == <<calls, prev>>

matcher_vars == <<document_text, threshold, fuzz_scores, archive, pc, df, row_idx,
                  matches, scored, result, raised, clock, agent, mongo_client,
                  collection, calls, prev, other>>

mcp_vars == <<message_handlers, agent_registry, delivered, reply>>

manager_vars == <<loaded_agents, failed_agents, agent_health_status,
                  agent_metadata_cache>>

server_vars == <<server_ready, mongodb_integration, manager_vars, agent_files,
                 monitor, request, unhealthy_rounds>>

system_vars == <<mcp_vars, server_vars>>

vars == <<matcher_vars, system_vars>>

----------------------------------------------------------------------------
(* Bounds of the model: the inputs a behaviour draws from *)

MaxRows == 2

(* the calls of plan() one caller makes on its agent *)
MaxCalls == 2

(* line 31 *)
DefaultThreshold == 60

(* the threshold as a parameter: the value of line 31 and one above it *)
Thresholds == {DefaultThreshold, DefaultThreshold + 1}

Queries == { <<>>, <<" ", " ">>, <<"Q">> }

Schemas == { <<"title", "body">>, <<"name", "body">>, <<"matched_on", "match_score">> }

(* <<token_set_ratio, partial_ratio>> of a string: around the thresholds *)
ScorePairs == { <<59, 0>>, <<60, 59>>, <<0, 61>> }

----------------------------------------------------------------------------
(* Python values *)

NaN == [kind |-> "nan"]

PyNone == [kind |-> "none"]

PyStr(s) == [kind |-> "str", chars |-> s]

PyName(c) == [kind |-> "str", name |-> c]

PyNum(n) == [kind |-> "num", num |-> n]

PyBool(b) == [kind |-> "bool", bool |-> b]

Values == { NaN, PyStr(<<" ", " ">>), PyStr(<<"a">>), PyStr(<<"B">>) }

isna(value) == value.kind = "nan"

(* str() of a natural number: its decimal digits *)
RECURSIVE decimal(_)
decimal(n) ==
    LET digit == <<"0", "1", "2", "3", "4", "5", "6", "7", "8", "9">>[(n % 10) + 1]
    IN  IF n < 10 THEN <<digit>> ELSE decimal(n \div 10) \o <<digit>>

str(value) ==
    CASE value.kind = "nan"  -> <<"n", "a", "n">>
      [] value.kind = "num"  -> decimal(value.num)
      [] value.kind = "bool" -> IF value.bool THEN <<"T", "r", "u", "e">>
                                              ELSE <<"F", "a", "l", "s", "e">>
      [] OTHER -> value.chars

isspace(c) == c \in {" ", "\t", "\n"}

RECURSIVE lstrip(_)
lstrip(s) == IF s # <<>> /\ isspace(Head(s)) THEN lstrip(Tail(s)) ELSE s

RECURSIVE rstrip(_)
rstrip(s) ==
    IF s # <<>> /\ isspace(s[Len(s)]) THEN rstrip(SubSeq(s, 1, Len(s) - 1)) ELSE s

strip(s) == rstrip(lstrip(s))

lower_char(c) ==
    CASE c = "A" -> "a"
      [] c = "B" -> "b"
      [] c = "Q" -> "q"
      [] c = "S" -> "s"
      [] c = "T" -> "t"
      [] c = "F" -> "f"
      [] OTHER -> c

RECURSIVE lower(_)
lower(s) == IF s = <<>> THEN <<>> ELSE <<lower_char(Head(s))>> \o lower(Tail(s))

(* str.upper() of one character: the sharp s has no capital of its own *)
upper_char(c) ==
    CASE c = "a" -> <<"A">>
      [] c = "b" -> <<"B">>
      [] c = "q" -> <<"Q">>
      [] c = "s" -> <<"S">>
      [] c = "ß" -> <<"S", "S">>
      [] OTHER -> <<c>>

RECURSIVE upper(_)
upper(s) == IF s = <<>> THEN <<>> ELSE upper_char(Head(s)) \o upper(Tail(s))

PyEq(a, b) == a.kind # "nan" /\ b.kind # "nan" /\ a = b

----------------------------------------------------------------------------
(* The archive and the DataFrame *)

RowsOf(columns) == [1..Len(columns) -> Values]

RowSeqs(columns) == UNION { [1..n -> RowsOf(columns)] : n \in 0..MaxRows }

Frames ==
    UNION { { [columns |-> c, rows |-> r] : r \in RowSeqs(c) } : c \in Schemas }

Unreadable == [unreadable |-> TRUE]

(* no file at archive_path *)
Missing == [unreadable |-> TRUE, missing |-> TRUE]

Archives == { [unreadable |-> FALSE, frame |-> f] : f \in Frames } \cup { Unreadable }

(* the archives over some schemas and cell values *)
FramesFrom(schemas, values) ==
    UNION { { [columns |-> c, rows |-> r] :
                r \in UNION { [1..n -> [1..Len(c) -> values]] : n \in 0..MaxRows } } :
            c \in schemas }

ArchivesFrom(schemas, values) ==
    { [unreadable |-> FALSE, frame |-> f] : f \in FramesFrom(schemas, values) }
        \cup { Unreadable }

NoFrame == [columns |-> <<>>, rows |-> <<>>]

HasColumn(frame, c) == \E j \in 1..Len(frame.columns) : frame.columns[j] = c

ColumnIndex(frame, c) == CHOOSE j \in 1..Len(frame.columns) : frame.columns[j] = c

ColumnNames(frame) == { frame.columns[j] : j \in 1..Len(frame.columns) }

to_dict(frame, i) ==
    [c \in ColumnNames(frame) |-> frame.rows[i][ColumnIndex(frame, c)]]

----------------------------------------------------------------------------
(* Scoring of one field *)

(* variant: the test "document_text is None", false of every string *)
document_text_is_none(doc) == FALSE

(* line 25: not document_text *)
no_document_text(doc) == doc = <<>>

(* variant: a value that is not a string is skipped *)
skip_unless_str(value) ==
    isna(value) \/ value.kind # "str" \/ strip(str(value)) = <<>>

(* line 37 *)
skip_value(value) == isna(value) \/ strip(str(value)) = <<>>

(* line 41 *)
value_str(value) == lower(str(value))

(* line 42 *)
doc_text_lower(doc) == lower(doc)

(* The scores of the library for a pair of strings.  fuzz_scores lists the   *)
(* pairs the code can score in a behaviour; the library is total, and a pair *)
(* outside the list scores nothing.                                          *)
fuzz_pair(s1, s2) ==
    IF s1 \in DOMAIN fuzz_scores /\ s2 \in DOMAIN fuzz_scores[s1]
    THEN fuzz_scores[s1][s2]
    ELSE <<0, 0>>

(* line 45 *)
token_set_ratio(s1, s2) == fuzz_pair(s1, s2)[1]

(* line 46 *)
partial_ratio(s1, s2) == fuzz_pair(s1, s2)[2]

max(a, b) == IF a >= b THEN a ELSE b

similarity(doc, value) ==
    LET token_ratio   == token_set_ratio(doc_text_lower(doc), value_str(value))
        partial_score == partial_ratio(doc_text_lower(doc), value_str(value))
    IN  max(token_ratio, partial_score)

(* variant: a strict comparison *)
qualifies_strict(sim, th) == sim > th

(* line 51 *)
qualifies(sim, th) == sim >= th

NormStrings == { value_str(v) : v \in { w \in Values : ~skip_value(w) } }

----------------------------------------------------------------------------
(* The match entry and the check against the matches found so far *)

match_entry(frame, i, j, sim) ==
    to_dict(frame, i) @@
    [match_score   |-> PyNum(sim),
     matched_on    |-> PyName(frame.columns[j]),
     matched_value |-> frame.rows[i][j]]

dict_get(d, key) == IF key \in DOMAIN d THEN d[key] ELSE PyNone

title_KeyError(found, frame) == found # <<>> /\ ~HasColumn(frame, "title")

(* variant: no check against the matches found so far *)
never_in_matches(found, frame, i) == FALSE

(* line 61 *)
already_in_matches(found, frame, i) ==
    \E k \in 1..Len(found) :
        PyEq(dict_get(found[k].entry, "title"),
             frame.rows[i][ColumnIndex(frame, "title")])

(* variant: the new match is put in front *)
prepend_match(found, i, entry) == <<[row |-> i, entry |-> entry]>> \o found

(* line 62; row is the index df.iterrows() yields with the row *)
append_match(found, i, entry) == Append(found, [row |-> i, entry |-> entry])

(* variant: the loop over the fields without its break *)
next_col_no_break(frame, j, hit) == j + 1

(* line 35 and the break of line 63: the field the inner loop visits next *)
next_col(frame, j, hit) == IF hit THEN Len(frame.columns) + 1 ELSE j + 1

----------------------------------------------------------------------------
(* The scan.  acc = [matches, scored, raised] is what the loops have built.  *)

RECURSIVE scan_fields(_, _, _, _, _, _)
scan_fields(acc, doc, frame, th, i, j) ==
    IF j > Len(frame.columns) THEN acc
    ELSE
      LET value == frame.rows[i][j] IN
      IF skip_value(value) THEN scan_fields(acc, doc, frame, th, i, j + 1)
      ELSE
        LET sim    == similarity(doc, value)
            hit    == qualifies(sim, th)
            logged == [acc EXCEPT !.scored = @ \cup
                         { [row |-> i, col |-> j, similarity |-> sim, hit |-> hit] }]
            after  ==
              IF ~hit THEN logged
              ELSE IF title_KeyError(acc.matches, frame)
                   THEN [logged EXCEPT !.raised = "KeyError"]
              ELSE IF already_in_matches(acc.matches, frame, i) THEN logged
              ELSE [logged EXCEPT !.matches =
                        append_match(@, i, match_entry(frame, i, j, sim))]
        IN  IF after.raised # "" THEN after
            ELSE scan_fields(after, doc, frame, th, i, next_col(frame, j, hit))

RECURSIVE scan_rows(_, _, _, _, _)
scan_rows(acc, doc, frame, th, i) ==
    IF i > Len(frame.rows) \/ acc.raised # "" THEN acc
    ELSE scan_rows(scan_fields(acc, doc, frame, th, i, 1), doc, frame, th, i + 1)

----------------------------------------------------------------------------
(* What plan() returns *)

(* variant: a file with a header and no rows does not load *)
csv_loads_with_rows(arch) == ~arch.unreadable /\ arch.frame.rows # <<>>

(* line 28: whether pd.read_csv returns a frame.  A file that is missing, *)
(* is not text, or holds no header line is unreadable.                    *)
csv_loads(arch) == ~arch.unreadable

(* variant: the frame of the call before is used when there is one *)
read_csv_cached(arch, held) == IF held = NoFrame THEN arch.frame ELSE held

(* line 28: the frame is read from the file at every call *)
read_csv(arch, held) == arch.frame

(* variant: the matches of the call before are kept *)
kept_matches(old) == old

(* line 30 *)
new_matches(old) == <<>>

no_query_result == [error |-> "No document_text provided."]

(* variant: the list of matches, also when it is empty *)
plan_output_list(found) == [type |-> "list", list |-> found, text |-> ""]

(* line 68 *)
plan_output(found) ==
    IF found # <<>> THEN [type |-> "list", list |-> found, text |-> ""]
    ELSE [type |-> "str", list |-> <<>>, text |-> "No matches found."]

(* lines 65-71 *)
plan_result(doc, found, now) ==
    [agent     |-> "ArchiveSearchAgent",
     input     |-> doc,
     output    |-> plan_output(found),
     timestamp |-> now,
     metadata  |-> [source_file |-> "sample_archive.csv"]]

IsReport(r) == "agent" \in DOMAIN r

IsNoQuery(r) == r = no_query_result

(* plan() from call to return, with the threshold as a parameter *)
run_plan(doc, arch, th) ==
    IF no_document_text(doc)
    THEN [result |-> no_query_result, raised |-> "", matches |-> <<>>, scored |-> {}]
    ELSE IF ~csv_loads(arch)
    THEN [result |-> PyNone, raised |-> "DatasetLoadError", matches |-> <<>>, scored |-> {}]
    ELSE
      LET acc == scan_rows([matches |-> <<>>, scored |-> {}, raised |-> ""],
                           doc, arch.frame, th, 1)
      IN  [result  |-> IF acc.raised = "" THEN plan_result(doc, acc.matches, clock)
                       ELSE PyNone,
           raised  |-> acc.raised,
           matches |-> acc.matches,
           scored  |-> acc.scored]

----------------------------------------------------------------------------
(* The agent object, and the locals of an invocation that has not started *)

(* lines 12-18 *)
constructed_agent ==
    [memory       |-> PyNone,
     source       |-> "csv",
     client       |-> "MongoClient",
     archive_path |-> "sample_archive.csv"]

(* variant: the constructor does not look for the file *)
path_always_exists(arch) == TRUE

(* line 19: os.path.exists(self.archive_path) *)
path_exists(arch) == arch # Missing

idle ==
    [pc |-> "idle", document_text |-> <<>>, df |-> NoFrame, row_idx |-> 0,
     matches |-> <<>>, result |-> PyNone, raised |-> ""]

----------------------------------------------------------------------------
(* The state machine of one call of plan() *)

(* no MCP agent is constructed and the production server is not started *)
NoAgents ==
    /\ message_handlers = <<>>
    /\ agent_registry = <<>>
    /\ delivered = <<>>
    /\ reply = PyNone

NoServer ==
    /\ server_ready = FALSE
    /\ mongodb_integration = PyNone
    /\ loaded_agents = <<>>
    /\ failed_agents = {}
    /\ agent_health_status = <<>>
    /\ agent_metadata_cache = <<>>
    /\ agent_files = <<>>
    /\ monitor = PyNone
    /\ request = PyNone
    /\ unhealthy_rounds = <<>>

NoSystem == NoAgents /\ NoServer

(* the locals and the history of a caller that has not called plan() yet *)
NoCallYet ==
    /\ df = NoFrame
    /\ row_idx = 0
    /\ matches = <<>>
    /\ scored = {}
    /\ result = PyNone
    /\ raised = ""
    /\ clock = 0
    /\ collection = <<>>
    /\ calls = 1
    /\ prev = PyNone
    /\ other = idle

(* a constructed agent about to be called once *)
MatcherStart(queries, thresholds, archives) ==
    /\ document_text \in queries
    /\ threshold \in thresholds
    /\ archive \in archives
    /\ pc = "start"
    /\ agent = constructed_agent
    /\ mongo_client = "MongoClient"
    /\ NoCallYet

StartWith(queries, thresholds, archives) ==
    /\ MatcherStart(queries, thresholds, archives)
    /\ NoSystem

Init ==
    /\ StartWith(Queries, Thresholds, Archives)
    /\ fuzz_scores \in [ {doc_text_lower(document_text)} -> [NormStrings -> ScorePairs] ]

(* lines 24-26 *)
CheckQuery ==
    /\ pc = "start"
    /\ IF no_document_text(document_text)
       THEN /\ result' = no_query_result
            /\ pc' = "done"
       ELSE /\ result' = result
            /\ pc' = "read"
    /\ UNCHANGED <<df, row_idx, matches, scored, raised, clock>>
    /\ UNCHANGED <<input_vars, shared_vars, caller_vars, other>>
    /\ UNCHANGED system_vars

(* line 28, the read succeeds; lines 30-31 *)
ReadCsv ==
    /\ pc = "read"
    /\ csv_loads(archive)
    /\ df' = read_csv(archive, df)
    /\ row_idx' = 1
    /\ matches' = new_matches(matches)
    /\ pc' = "scan"
    /\ UNCHANGED <<scored, result, raised, clock>>
    /\ UNCHANGED <<input_vars, shared_vars, caller_vars, other>>
    /\ UNCHANGED system_vars

(* line 28, pd.read_csv raises *)
ReadCsvFails ==
    /\ pc = "read"
    /\ ~csv_loads(archive)
    /\ raised' = "DatasetLoadError"
    /\ pc' = "raised"
    /\ UNCHANGED <<df, row_idx, matches, scored, result, clock>>
    /\ UNCHANGED <<input_vars, shared_vars, caller_vars, other>>
    /\ UNCHANGED system_vars

(* lines 33-63, one row of df.iterrows() *)
ScanRow ==
    /\ pc = "scan"
    /\ row_idx <= Len(df.rows)
    /\ LET acc == scan_fields([matches |-> matches, scored |-> scored, raised |-> ""],
                              document_text, df, threshold, row_idx, 1)
       IN  /\ matches' = acc.matches
           /\ scored' = acc.scored
           /\ raised' = acc.raised
           /\ IF acc.raised # ""
              THEN /\ pc' = "raised"
                   /\ row_idx' = row_idx
              ELSE /\ pc' = "scan"
                   /\ row_idx' = row_idx + 1
    /\ UNCHANGED <<df, result, clock>>
    /\ UNCHANGED <<input_vars, shared_vars, caller_vars, other>>
    /\ UNCHANGED system_vars

(* variant: plan() inserts its report in the collection before it returns *)
BuildResultSaving ==
    /\ pc = "scan"
    /\ row_idx > Len(df.rows)
    /\ result' = plan_result(document_text, matches, clock)
    /\ collection' = Append(collection, result')
    /\ clock' = clock + 1
    /\ pc' = "done"
    /\ UNCHANGED <<df, row_idx, matches, scored, raised>>
    /\ UNCHANGED <<input_vars, archive, agent, mongo_client, caller_vars, other>>
    /\ UNCHANGED system_vars

(* lines 65-72 *)
BuildResult ==
    /\ pc = "scan"
    /\ row_idx > Len(df.rows)
    /\ result' = plan_result(document_text, matches, clock)
    /\ clock' = clock + 1
    /\ pc' = "done"
    /\ UNCHANGED <<df, row_idx, matches, scored, raised>>
    /\ UNCHANGED <<input_vars, shared_vars, caller_vars, other>>
    /\ UNCHANGED system_vars

Next == CheckQuery \/ ReadCsv \/ ReadCsvFails \/ ScanRow \/ BuildResult

Spec == Init /\ [][Next]_vars

----------------------------------------------------------------------------
(* The same call on archives whose second column is named "a", a name that *)
(* a cell of the first column can spell.                                    *)

KeySchemas == { <<"matched_on", "a">> }

InitKeys ==
    /\ StartWith({ <<"Q">> }, Thresholds, ArchivesFrom(KeySchemas, Values))
    /\ fuzz_scores \in [ {doc_text_lower(document_text)} -> [NormStrings -> ScorePairs] ]

SpecKeys == InitKeys /\ [][Next]_vars

----------------------------------------------------------------------------
(* The same call with a query in lower case, the library scoring both the  *)
(* query and its upper-case form, on archives with a title column.          *)

TitledSchemas == { <<"title", "body">> }

PlainValues == { NaN, PyStr(<<"a">>), PyStr(<<"B">>) }

LowerCaseQueries == { <<"q">>, <<"ß">> }

InitCase ==
    /\ StartWith(LowerCaseQueries, {DefaultThreshold},
                 ArchivesFrom(TitledSchemas, PlainValues))
    /\ fuzz_scores \in [ {doc_text_lower(document_text),
                           doc_text_lower(upper(document_text))}
                          -> [NormStrings -> ScorePairs] ]

SpecCase == InitCase /\ [][Next]_vars

----------------------------------------------------------------------------
(* The same call with a padded query, the library scoring both the query   *)
(* and its stripped form.  token_set_ratio compares the sets of the words   *)
(* of its arguments, split at whitespace, so padding does not change it;    *)
(* partial_ratio aligns the characters of the shorter string, blanks        *)
(* included, and is arbitrary for each of the two.                          *)

PaddedQueries == { <<" ", "Q">>, <<"Q", " ">> }

TokenScores == { DefaultThreshold - 1, DefaultThreshold }

PartialScores == { 0, DefaultThreshold + 1 }

PadTables(doc) ==
    LET keys == { doc_text_lower(doc), doc_text_lower(strip(doc)) }
    IN  { [k \in keys |-> [v \in NormStrings |-> <<tk[v], pr[k][v]>>]] :
            tk \in [NormStrings -> TokenScores],
            pr \in [keys -> [NormStrings -> PartialScores]] }

InitPad ==
    /\ StartWith(PaddedQueries, {DefaultThreshold},
                 ArchivesFrom(TitledSchemas, PlainValues))
    /\ fuzz_scores \in PadTables(document_text)

SpecPad == InitPad /\ [][Next]_vars

----------------------------------------------------------------------------
(* The same call on archives whose cells hold a number, a boolean or a     *)
(* string, as pd.read_csv types the columns.                                *)

TypedValues == { PyNum(7), PyBool(TRUE), PyStr(<<"a">>) }

InitTypes ==
    /\ StartWith({ <<"Q">> }, {DefaultThreshold},
                 ArchivesFrom(TitledSchemas, TypedValues))
    /\ fuzz_scores \in [ {doc_text_lower(document_text)}
                          -> [ { value_str(v) : v \in TypedValues } -> ScorePairs ] ]

SpecTypes == InitTypes /\ [][Next]_vars

----------------------------------------------------------------------------
(* A caller: it constructs the agent, calls plan(), saves what plan()       *)
(* returned, and calls again; the archive file is edited between calls.     *)
(* MONGO_URI is set, so that get_mongo_client() does not raise.             *)

(* the cells of the archives here: a missing value and one string *)
FewValues == { NaN, PyStr(<<"a">>) }

FewTables(doc) ==
    [ {doc_text_lower(doc)}
        -> [ { value_str(v) : v \in { w \in FewValues : ~skip_value(w) } } -> ScorePairs ] ]

(* lines 10-18, and get_mongo_client (data_source/mongodb.py lines 11-19), *)
(* which caches the client it creates in the module's _client             *)
Construct ==
    /\ pc = "new"
    /\ path_exists(archive)
    /\ mongo_client' = "MongoClient"
    /\ agent' = constructed_agent
    /\ pc' = "start"
    /\ UNCHANGED <<df, row_idx, matches, scored, result, raised, clock>>
    /\ UNCHANGED <<input_vars, archive, collection, caller_vars, other>>
    /\ UNCHANGED system_vars

(* lines 10-20, the file is not there: FileNotFoundError *)
ConstructFails ==
    /\ pc = "new"
    /\ ~path_exists(archive)
    /\ mongo_client' = "MongoClient"
    /\ raised' = "FileNotFoundError"
    /\ pc' = "raised"
    /\ UNCHANGED <<df, row_idx, matches, scored, result, clock>>
    /\ UNCHANGED <<input_vars, archive, agent, collection, caller_vars, other>>
    /\ UNCHANGED system_vars

(* the caller calls plan() again with the same query; it keeps the report   *)
(* of the call before, and the dataset that call read, to compare           *)
CallAgain ==
    /\ pc = "done"
    /\ calls < MaxCalls
    /\ prev' = [document_text |-> document_text, df |-> df, result |-> result]
    /\ calls' = calls + 1
    /\ result' = PyNone
    /\ scored' = {}
    /\ pc' = "start"
    /\ UNCHANGED <<df, row_idx, matches, raised, clock>>
    /\ UNCHANGED <<input_vars, shared_vars, other>>
    /\ UNCHANGED system_vars

(* the edits of the archive file between two calls *)
ArchiveEdits(arch) ==
    LET f == arch.frame
        more == [j \in 1..Len(f.columns) |-> PyStr(<<"a">>)]
    IN  { Unreadable, Missing }
        \cup { [unreadable |-> FALSE, frame |-> [f EXCEPT !.rows = Tail(@)]] :
                 x \in { y \in {1} : f.rows # <<>> } }
        \cup { [unreadable |-> FALSE, frame |-> [f EXCEPT !.rows = Append(@, more)]] :
                 x \in { y \in {1} : Len(f.rows) < MaxRows } }

(* the file is edited once after a call that read it *)
ArchiveChange ==
    /\ pc = "done"
    /\ calls < MaxCalls
    /\ csv_loads(archive)
    /\ archive.frame = df
    /\ archive' \in ArchiveEdits(archive)
    /\ UNCHANGED <<plan_vars, clock, input_vars, agent, mongo_client, collection,
                   caller_vars, other>>
    /\ UNCHANGED system_vars

(* main.py lines 158-177 (save_to_mongodb), run_agents_demo.py lines 28-33: *)
(* the caller inserts the dict plan() returned                              *)
SaveResult ==
    /\ pc = "done"
    /\ Len(collection) < calls
    /\ collection' = Append(collection, result)
    /\ UNCHANGED <<plan_vars, clock, input_vars, archive, agent, mongo_client,
                   caller_vars, other>>
    /\ UNCHANGED system_vars

InitCalls ==
    /\ document_text \in { <<"Q">> }
    /\ threshold = DefaultThreshold
    /\ archive \in ArchivesFrom(TitledSchemas, FewValues) \cup { Missing }
    /\ fuzz_scores \in FewTables(document_text)
    /\ pc = "new"
    /\ agent = PyNone
    /\ mongo_client = "None"
    /\ NoCallYet
    /\ NoSystem

NextCalls ==
    \/ Construct
    \/ ConstructFails
    \/ CheckQuery
    \/ ReadCsv
    \/ ReadCsvFails
    \/ ScanRow
    \/ BuildResult
    \/ CallAgain
    \/ ArchiveChange
    \/ SaveResult

SpecCalls == InitCalls /\ [][NextCalls]_vars

----------------------------------------------------------------------------
(* Two invocations of plan() at once, by two callers.  The second has its  *)
(* own query and its own locals (other); both read the archive file when    *)
(* they reach line 28, and the file is edited between the two reads.  The   *)
(* agents were constructed before: get_mongo_client() tests and sets the    *)
(* module's _client without a lock, so either caller's client is cached.    *)

Clients == { "MongoClient", "MongoClient2" }

(* lines 24-26, second invocation *)
OtherCheckQuery ==
    /\ other.pc = "start"
    /\ other' = IF no_document_text(other.document_text)
                THEN [other EXCEPT !.result = no_query_result, !.pc = "done"]
                ELSE [other EXCEPT !.pc = "read"]
    /\ UNCHANGED <<plan_vars, clock, input_vars, shared_vars, caller_vars>>
    /\ UNCHANGED system_vars

(* lines 28-31, second invocation *)
OtherReadCsv ==
    /\ other.pc = "read"
    /\ csv_loads(archive)
    /\ other' = [other EXCEPT !.df = read_csv(archive, @), !.row_idx = 1,
                              !.matches = new_matches(@), !.pc = "scan"]
    /\ UNCHANGED <<plan_vars, clock, input_vars, shared_vars, caller_vars>>
    /\ UNCHANGED system_vars

(* line 28 raises, second invocation *)
OtherReadCsvFails ==
    /\ other.pc = "read"
    /\ ~csv_loads(archive)
    /\ other' = [other EXCEPT !.raised = "DatasetLoadError", !.pc = "raised"]
    /\ UNCHANGED <<plan_vars, clock, input_vars, shared_vars, caller_vars>>
    /\ UNCHANGED system_vars

(* variant: the matches are one list that both invocations append to *)
OtherScanRowShared ==
    /\ other.pc = "scan"
    /\ other.row_idx <= Len(other.df.rows)
    /\ LET acc == scan_fields([matches |-> matches, scored |-> {}, raised |-> ""],
                              other.document_text, other.df, threshold,
                              other.row_idx, 1)
       IN  /\ matches' = acc.matches
           /\ other' = IF acc.raised # ""
                       THEN [other EXCEPT !.matches = acc.matches,
                                          !.raised = acc.raised, !.pc = "raised"]
                       ELSE [other EXCEPT !.matches = acc.matches,
                                          !.row_idx = @ + 1]
    /\ UNCHANGED <<pc, df, row_idx, scored, result, raised>>
    /\ UNCHANGED <<clock, input_vars, shared_vars, caller_vars>>
    /\ UNCHANGED system_vars

(* lines 33-63, one row, second invocation *)
OtherScanRow ==
    /\ other.pc = "scan"
    /\ other.row_idx <= Len(other.df.rows)
    /\ LET acc == scan_fields([matches |-> other.matches, scored |-> {}, raised |-> ""],
                              other.document_text, other.df, threshold,
                              other.row_idx, 1)
       IN  other' = IF acc.raised # ""
                    THEN [other EXCEPT !.matches = acc.matches,
                                       !.raised = acc.raised, !.pc = "raised"]
                    ELSE [other EXCEPT !.matches = acc.matches,
                                       !.row_idx = @ + 1]
    /\ UNCHANGED <<plan_vars, clock, input_vars, shared_vars, caller_vars>>
    /\ UNCHANGED system_vars

(* lines 65-72, second invocation *)
OtherBuildResult ==
    /\ other.pc = "scan"
    /\ other.row_idx > Len(other.df.rows)
    /\ other' = [other EXCEPT
                    !.result = plan_result(other.document_text, other.matches, clock),
                    !.pc = "done"]
    /\ clock' = clock + 1
    /\ UNCHANGED <<plan_vars, input_vars, shared_vars, caller_vars>>
    /\ UNCHANGED system_vars

HasRead(p) == p \in {"scan", "done", "raised"}

(* the file is edited after one invocation has read it and before the other *)
ArchiveChangeBetweenReads ==
    /\ csv_loads(archive)
    /\ \/ pc = "scan" /\ archive.frame = df /\ ~HasRead(other.pc)
       \/ other.pc = "scan" /\ archive.frame = other.df /\ ~HasRead(pc)
    /\ archive' \in ArchiveEdits(archive)
    /\ UNCHANGED <<plan_vars, clock, input_vars, agent, mongo_client, collection,
                   caller_vars, other>>
    /\ UNCHANGED system_vars

InitConc ==
    /\ document_text \in { <<"Q">> }
    /\ threshold = DefaultThreshold
    /\ archive \in ArchivesFrom(TitledSchemas, FewValues)
    /\ fuzz_scores \in FewTables(document_text)
    /\ pc = "start"
    /\ agent = constructed_agent
    /\ mongo_client \in Clients
    /\ df = NoFrame
    /\ row_idx = 0
    /\ matches = <<>>
    /\ scored = {}
    /\ result = PyNone
    /\ raised = ""
    /\ clock = 0
    /\ collection = <<>>
    /\ calls = 1
    /\ prev = PyNone
    /\ other \in { [idle EXCEPT !.pc = "start", !.document_text = q] :
                      q \in { <<>>, <<"Q">> } }
    /\ NoSystem

NextConc ==
    \/ CheckQuery
    \/ ReadCsv
    \/ ReadCsvFails
    \/ ScanRow
    \/ BuildResult
    \/ OtherCheckQuery
    \/ OtherReadCsv
    \/ OtherReadCsvFails
    \/ OtherScanRow
    \/ OtherBuildResult
    \/ ArchiveChangeBetweenReads

SpecConc == InitConc /\ [][NextConc]_vars

----------------------------------------------------------------------------
(***************************************************************************)
(* BaseMCPAgent (agents/base_agent.py): the handlers an agent registers,   *)
(* process_message, call_agent and the registry.  A handler is the code of *)
(* a subclass: it returns a value or raises, as the caller of the step     *)
(* chooses.  An Optional[str] is a sequence of at most one string, a       *)
(* message text is the sequence of its parts.                              *)
(***************************************************************************)
AgentIds == {"math_agent", "weather_agent"}

Methods == {"process", "info"}

Nothing == <<>>

Some(x) == <<x>>

(* the methods lists of the capabilities an agent is constructed with *)
CapabilityLists ==
    { <<>>, << <<"info">> >>, << <<"process">>, <<"info", "process">> >> }

(* the handle_<method> attributes a subclass has: handle_process is abstract *)
HandlerSets == { {"process"}, {"process", "info"} }

(* SimpleMCPAgent: one capability, both of its methods have a handler *)
SimpleCapabilities == << <<"process", "info">> >>

SimpleHandlers == {"process", "info"}

methods_of(capabilities) ==
    UNION { { capabilities[c][k] : k \in 1..Len(capabilities[c]) } :
            c \in 1..Len(capabilities) }

register_handlers(capabilities, defined) ==
    { method \in methods_of(capabilities) : method \in defined }

isinstance_dict(value) == "kind" \notin DOMAIN value

returns(value) == [raised |-> Nothing, value |-> value]

raising(text) == [raised |-> Some(text), value |-> PyNone]

(* what awaiting a handler can do *)
HandlerOutcomes ==
    { returns([status |-> "success", processed_by |-> "weather_agent"]),
      returns([data |-> "4"]),
      returns(PyNone),
      raising("boom") }

error_dict(text, self) ==
    [status |-> "error", message |-> text, agent |-> self]

unknown_method(self, handlers, message) ==
    [status |-> "error", message |-> <<"Unknown method: ", message.method>>,
     available_methods |-> handlers, agent |-> self]

stamped(value, self) ==
    IF isinstance_dict(value)
    THEN [processed_by |-> self, processed_at |-> "now"] @@ value
    ELSE value

caught(outcome, self) ==
    [invoked |-> TRUE, raised |-> Nothing,
     value |-> error_dict(outcome.raised, self)]

uncaught(outcome, self) ==
    [invoked |-> TRUE, raised |-> outcome.raised, value |-> PyNone]

except_Exception(outcome, self) == caught(outcome, self)

(* process_message of agent self, whose handlers are given, when awaiting *)
(* the handler has the given outcome                                      *)
process_message(self, handlers, message, outcome) ==
    IF message.method \in handlers
    THEN IF outcome.raised # Nothing
         THEN except_Exception(outcome, self)
         ELSE [invoked |-> TRUE, raised |-> Nothing,
               value |-> stamped(outcome.value, self)]
    ELSE [invoked |-> FALSE, raised |-> Nothing,
          value |-> unknown_method(self, handlers, message)]

MCPMessage(method, sender, target) ==
    [method |-> method, params |-> [test |-> "data"],
     sender |-> sender, target |-> target]

PyDict(items) == [kind |-> "dict", items |-> items]

(* "not self.agent_registry": None and the empty dict are falsy *)
falsy(registry) == registry = PyNone \/ DOMAIN registry.items = {}

named_target(registry, agent_id) == agent_id

registered_target(registry, agent_id) == registry.items[agent_id]

not_delivered(text, self) ==
    [delivered |-> <<>>, raised |-> Nothing, value |-> error_dict(text, self)]

(* call_agent of agent self: the messages it delivers and what it returns *)
call_agent(self, registry, handlers, agent_id, method, outcome) ==
    IF falsy(registry)
    THEN not_delivered(<<"Agent registry not available">>, self)
    ELSE IF agent_id \notin DOMAIN registry.items
    THEN not_delivered(<<"Agent ", agent_id, " not found in registry">>, self)
    ELSE LET target_agent == registered_target(registry, agent_id)
             message == MCPMessage(method, Some(self), Some(agent_id))
             answer == process_message(target_agent, handlers[target_agent],
                                       message, outcome)
         IN  [delivered |-> << [to |-> target_agent, message |-> message,
                                invoked |-> answer.invoked] >>,
              raised |-> answer.raised, value |-> answer.value]

(* the registries a caller can hand to set_agent_registry: empty, one    *)
(* agent, every agent under its id, an agent under another agent's name *)
Registries ==
    { PyDict(<<>>),
      PyDict([agent_id \in {"math_agent"} |-> "math_agent"]),
      PyDict([agent_id \in AgentIds |-> agent_id]),
      PyDict([agent_id \in {"weather_agent"} |-> "math_agent"]) }

CalledIds == AgentIds \cup {"ghost_agent"}

CalledMethods == Methods \cup {"unknown"}

SetAgentRegistry(self, registry) ==
    /\ agent_registry' = [agent_registry EXCEPT ![self] = registry]
    /\ delivered' = <<>>
    /\ reply' = PyNone
    /\ UNCHANGED <<message_handlers, matcher_vars, server_vars>>

ProcessMessage(self, method, outcome) ==
    LET message == MCPMessage(method, Some("test_sender"), Nothing)
        answer == process_message(self, message_handlers[self], message, outcome)
    IN  /\ delivered' = << [to |-> self, message |-> message,
                            invoked |-> answer.invoked] >>
        /\ reply' = [op |-> "process_message", self |-> self,
                     method |-> method, outcome |-> outcome,
                     raised |-> answer.raised, value |-> answer.value]
        /\ UNCHANGED <<message_handlers, agent_registry, matcher_vars,
                       server_vars>>

CallAgent(self, agent_id, method, outcome) ==
    LET call == call_agent(self, agent_registry[self], message_handlers,
                           agent_id, method, outcome)
    IN  /\ delivered' = call.delivered
        /\ reply' = [op |-> "call_agent", self |-> self, agent_id |-> agent_id,
                     method |-> method, outcome |-> outcome,
                     raised |-> call.raised, value |-> call.value]
        /\ UNCHANGED <<message_handlers, agent_registry, matcher_vars,
                       server_vars>>

(* the matcher is not in use *)
NoMatcher ==
    /\ MatcherStart({<<>>}, {DefaultThreshold}, {Missing})
    /\ fuzz_scores = <<>>

InitAgents ==
    /\ NoMatcher
    /\ NoServer
    /\ message_handlers \in
         { [self \in AgentIds |->
              IF self = "weather_agent"
              THEN register_handlers(SimpleCapabilities, SimpleHandlers)
              ELSE register_handlers(capabilities, defined)] :
           capabilities \in CapabilityLists, defined \in HandlerSets }
    /\ agent_registry = [self \in AgentIds |-> PyNone]
    /\ delivered = <<>>
    /\ reply = PyNone

NextAgents ==
    \/ \E self \in AgentIds, registry \in Registries :
          SetAgentRegistry(self, registry)
    \/ \E self \in AgentIds, method \in CalledMethods,
          outcome \in HandlerOutcomes :
          ProcessMessage(self, method, outcome)
    \/ \E self \in AgentIds, agent_id \in CalledIds, method \in CalledMethods,
          outcome \in HandlerOutcomes :
          CallAgent(self, agent_id, method, outcome)

SpecAgents == InitAgents /\ [][NextAgents]_vars

(***************************************************************************)
(* production_mcp_server.py, POST /api/mcp/command (process_command).  A   *)
(* command is the sequence of its pieces (words, signs, blanks); the       *)
(* pieces are chosen so that a keyword occurs in a command only inside one *)
(* piece, and occurs(piece) lists the keywords a piece contains.  The      *)
(* loaded agents answer through BaseMCPAgent.process_message.              *)
(***************************************************************************)
MathWords == {"calculate", "math", "compute", "+", "-", "*", "/", "%", "="}

WeatherWords == {"weather", "temperature", "forecast", "climate"}

DocumentWords == {"analyze", "document", "text", "extract", "process"}

EmailWords == {"email", "send", "mail", "gmail"}

CalendarWords == {"calendar", "schedule", "reminder", "meeting"}

(* the if / elif chain of process_command, in its order *)
Categories ==
    << [words |-> MathWords, aid |-> "math_agent"],
       [words |-> WeatherWords, aid |-> "weather_agent"],
       [words |-> DocumentWords, aid |-> "document_agent"],
       [words |-> EmailWords, aid |-> "gmail_agent"],
       [words |-> CalendarWords, aid |-> "calendar_agent"] >>

(* str.lower() of a piece *)
lower_piece(piece) ==
    CASE piece = "WEATHER" -> "weather"
      [] piece = "Math" -> "math"
      [] piece = "Hello" -> "hello"
      [] OTHER -> piece

RECURSIVE lower_pieces(_)
lower_pieces(s) ==
    IF s = <<>> THEN <<>> ELSE <<lower_piece(Head(s))>> \o lower_pieces(Tail(s))

(* the keywords that are substrings of a piece *)
occurs(piece) ==
    CASE piece = "e-mail" -> {"-", "mail"}
      [] piece = "gmail" -> {"gmail", "mail"}
      [] piece = "email" -> {"email", "mail"}
      [] OTHER -> {piece}

(* any(word in command for word in words) *)
any_word_in(words, command) ==
    \E k \in 1..Len(command) : occurs(command[k]) \cap words # {}

RECURSIVE last_category(_, _)
last_category(command, k) ==
    IF k > Len(Categories) THEN 0
    ELSE LET later == last_category(command, k + 1)
         IN  IF later # 0 THEN later
             ELSE IF any_word_in(Categories[k].words, command) THEN k ELSE 0

(* the first branch of the chain whose test holds, 0 when none does *)
RECURSIVE first_category(_, _)
first_category(command, k) ==
    IF k > Len(Categories) THEN 0
    ELSE IF any_word_in(Categories[k].words, command) THEN k
    ELSE first_category(command, k + 1)

loaded_ids(loaded) == { loaded[k] : k \in 1..Len(loaded) }

(* lines 655-706: the id of the agent selected, Nothing when none is loaded *)
select_agent(command, loaded) ==
    LET k == first_category(command, 1)
    IN  IF k # 0 /\ Categories[k].aid \in loaded_ids(loaded)
        THEN Some(Categories[k].aid)
        ELSE IF loaded # <<>> THEN Some(loaded[1]) ELSE Nothing

(* what the two storage calls of mongodb_integration can do *)
StorageOutcomes == {"stored", "fallback", "fallback_refused", "raises"}

(* lines 726-760: the storage fields set on the result *)
storage_fields(integration, storage) ==
    IF integration = PyNone
    THEN [stored_in_mongodb |-> FALSE,
          storage_error |-> "MongoDB integration not available",
          storage_method |-> "unavailable"]
    ELSE CASE storage = "stored" ->
                [stored_in_mongodb |-> TRUE, mongodb_id |-> "id",
                 storage_method |-> "primary"]
           [] storage = "fallback" ->
                [stored_in_mongodb |-> TRUE, storage_method |-> "fallback"]
           [] storage = "fallback_refused" ->
                [stored_in_mongodb |-> FALSE, storage_method |-> "fallback"]
           [] OTHER ->
                [stored_in_mongodb |-> FALSE, storage_error |-> "boom",
                 storage_method |-> "failed"]

HTTPException(status_code, detail) ==
    [status_code |-> status_code, detail |-> detail]

JSONResponse(content) == [status_code |-> 200, content |-> content]

processing_failed(text) ==
    JSONResponse([status |-> "error",
                  message |-> <<"Command processing failed: ">> \o text,
                  timestamp |-> "now"])

(* process_command on a ready server *)
process_command(text, loaded, handlers, integration, outcome, storage) ==
    LET command == strip(lower_pieces(text))
        agent_id == select_agent(command, loaded)
    IN  IF agent_id = Nothing
        THEN JSONResponse([status |-> "error",
                           message |-> <<"No agents available to process command">>,
                           available_agents |-> loaded,
                           timestamp |-> "now"])
        ELSE LET aid == agent_id[1]
                 message == MCPMessage("process", Nothing, Nothing)
                 answer == process_message(aid, handlers[aid], message, outcome)
             IN  IF answer.raised # Nothing
                 THEN processing_failed(answer.raised)
                 ELSE IF ~isinstance_dict(answer.value)
                 THEN processing_failed(<<"object does not support item assignment">>)
                 ELSE JSONResponse(
                        storage_fields(integration, storage)
                        @@ [agent_used |-> aid,
                            server |-> "production_mcp_server",
                            timestamp |-> "now"]
                        @@ answer.value)

Commands ==
    { <<>>, <<" ">>, <<"Hello">>, <<"2", "+", "2">>, <<" ", "WEATHER">>,
      <<"forecast", " ", "Math">>, <<"analyze", " ", "weather">>,
      <<"send", " ", "document">>, <<"schedule", " ", "mail">>,
      <<"meeting">>, <<"e-mail">> }

ServerAgents ==
    { "math_agent", "weather_agent", "document_agent", "gmail_agent",
      "calendar_agent", "realtime_agent" }

(* loaded_agents in insertion order, with the health entry load_agent adds *)
LoadedOrders ==
    { <<>>, <<"math_agent">>, <<"weather_agent", "math_agent">>,
      <<"realtime_agent", "document_agent">>,
      <<"calendar_agent", "gmail_agent", "weather_agent">> }

healthy_entry == [status |-> "healthy", failure_count |-> 0]

ProcessCommand(command, outcome, storage) ==
    /\ request' =
         [op |-> "process_command", command |-> command, outcome |-> outcome,
          storage |-> storage,
          response |->
            IF ~server_ready
            THEN HTTPException(503, "Server not ready")
            ELSE process_command(command, loaded_agents, message_handlers,
                                 mongodb_integration, outcome, storage)]
    /\ UNCHANGED <<matcher_vars, mcp_vars, server_ready, mongodb_integration,
                   manager_vars, agent_files, monitor, unhealthy_rounds>>

(* lines 431-477, the end of startup_event *)
ServerReady ==
    /\ ~server_ready
    /\ server_ready' = TRUE
    /\ request' = PyNone
    /\ UNCHANGED <<matcher_vars, mcp_vars, mongodb_integration, manager_vars,
                   agent_files, monitor, unhealthy_rounds>>

InitCommand ==
    /\ NoMatcher
    /\ message_handlers \in
         { [aid \in ServerAgents |-> handlers] : handlers \in {{}, {"process"}} }
    /\ agent_registry = [aid \in ServerAgents |-> PyNone]
    /\ delivered = <<>>
    /\ reply = PyNone
    /\ server_ready = FALSE
    /\ mongodb_integration \in {PyNone, [kind |-> "MongoDBIntegration"]}
    /\ loaded_agents \in LoadedOrders
    /\ failed_agents = {}
    /\ agent_health_status = [aid \in loaded_ids(loaded_agents) |-> healthy_entry]
    /\ agent_metadata_cache = [aid \in loaded_ids(loaded_agents) |-> "live"]
    /\ agent_files = <<>>
    /\ monitor = PyNone
    /\ request = PyNone
    /\ unhealthy_rounds = <<>>

NextCommand ==
    \/ ServerReady
    \/ \E command \in Commands, outcome \in HandlerOutcomes,
          storage \in StorageOutcomes :
          ProcessCommand(command, outcome, storage)

SpecCommand == InitCommand /\ [][NextCommand]_vars

(***************************************************************************)
(* production_mcp_server.py, ProductionAgentManager and the background     *)
(* health monitor.  A dict is the sequence of its keys in insertion order  *)
(* with a function of the keys.  The manager's operations have no await    *)
(* that suspends (the agents have no cleanup()), so each is one step; the  *)
(* monitor is suspended while it sleeps and while an agent's               *)
(* health_check() runs, and the requests are served in between.            *)
(***************************************************************************)
ManagedAgents == {"math_agent", "weather_agent"}

(* folder_path.glob("*.py"): the files of a folder in name order *)
GlobOrder == <<"math_agent", "weather_agent">>

Folders == {"live", "inactive"}

(* what executing an agent module and its create_agent() does *)
LoadOutcomes == {"ok", "create_agent_raises", "no_create_agent"}

max_agent_failures == 3

(* the greatest failure_count the model follows *)
MaxFailureCount == 3

manager_now ==
    [loaded_agents |-> loaded_agents, failed_agents |-> failed_agents,
     agent_health_status |-> agent_health_status,
     agent_metadata_cache |-> agent_metadata_cache,
     agent_files |-> agent_files]

(* d[key] = ... on the keys of a dict: a new key goes last *)
set_key(keys, key) ==
    IF key \in loaded_ids(keys) THEN keys ELSE Append(keys, key)

(* del d[key] on the keys of a dict *)
del_key(keys, key) == SelectSeq(keys, LAMBDA k : k # key)

(* d without the entry of key *)
without(d, key) == [k \in DOMAIN d \ {key} |-> d[k]]

load_fails(manager, agent_id) ==
    [manager EXCEPT !.failed_agents = @ \cup {agent_id}]

(* lines 204-218 of load_agent: the entries a successful load writes *)
load_stores(manager, agent_id) ==
    [manager EXCEPT
       !.loaded_agents = set_key(@, agent_id),
       !.agent_health_status = (agent_id :> healthy_entry) @@ @]

load_agent(manager, agent_id) ==
    LET loads == manager.agent_files[agent_id].loads
    IN  CASE loads = "ok" ->
               [returned |-> TRUE, manager |-> load_stores(manager, agent_id)]
          [] loads = "no_create_agent" ->
               [returned |-> FALSE, manager |-> manager]
          [] OTHER ->
               [returned |-> FALSE, manager |-> load_fails(manager, agent_id)]

unload_agent(manager, agent_id) ==
    IF agent_id \in loaded_ids(manager.loaded_agents)
    THEN [returned |-> TRUE,
          manager |-> [manager EXCEPT
                         !.loaded_agents = del_key(@, agent_id),
                         !.agent_health_status = without(@, agent_id)]]
    ELSE [returned |-> FALSE, manager |-> manager]

restart_agent(manager, agent_id) ==
    IF agent_id \notin loaded_ids(manager.loaded_agents)
    THEN [returned |-> FALSE, manager |-> manager]
    ELSE load_agent(unload_agent(manager, agent_id).manager, agent_id)

move_agent(manager, agent_id, target_folder) ==
    IF agent_id \notin DOMAIN manager.agent_metadata_cache
    THEN [returned |-> FALSE, manager |-> manager]
    ELSE LET unloaded == unload_agent(manager, agent_id).manager
             moved == [unloaded EXCEPT
                         !.agent_files[agent_id].folder = target_folder,
                         !.agent_metadata_cache[agent_id] = target_folder]
         IN  [returned |-> TRUE,
              manager |-> IF target_folder = "live"
                          THEN load_agent(moved, agent_id).manager
                          ELSE moved]

(* discover_agents on the files GlobOrder[k..] of one folder *)
RECURSIVE discover_folder(_, _, _)
discover_folder(manager, folder_name, k) ==
    IF k > Len(GlobOrder) THEN manager
    ELSE LET agent_id == GlobOrder[k]
             cached == [manager EXCEPT !.agent_metadata_cache =
                                          (agent_id :> folder_name) @@ @]
         IN  IF manager.agent_files[agent_id].folder # folder_name
             THEN discover_folder(manager, folder_name, k + 1)
             ELSE IF folder_name = "live"
             THEN discover_folder(load_agent(cached, agent_id).manager,
                                  folder_name, k + 1)
             ELSE discover_folder(cached, folder_name, k + 1)

discover_agents(manager) ==
    discover_folder(discover_folder(manager, "live", 1), "inactive", 1)

(* the manager's dicts become those of the record *)
Becomes(manager) ==
    /\ loaded_agents' = manager.loaded_agents
    /\ failed_agents' = manager.failed_agents
    /\ agent_health_status' = manager.agent_health_status
    /\ agent_metadata_cache' = manager.agent_metadata_cache
    /\ agent_files' = manager.agent_files

index_of(keys, key) == CHOOSE k \in 1..Len(keys) : keys[k] = key

(* the monitor task is suspended, in asyncio.sleep or in the await of an *)
(* agent's health_check(): only then another task runs                  *)
MonitorSuspended == monitor.pc \in {"sleep", "await"}

(* the iterator of health_check_all_agents over loaded_agents.keys() when *)
(* the entry of agent_id is deleted: it stands at the same entry          *)
deleted_under(iterator, keys, agent_id) ==
    IF /\ iterator.pc \in {"iterate", "await"}
       /\ agent_id \in loaded_ids(keys)
       /\ index_of(keys, agent_id) <= iterator.pos
    THEN [iterator EXCEPT !.pos = @ - 1]
    ELSE iterator

LoadAgent(agent_id) ==
    LET call == load_agent(manager_now, agent_id)
    IN  /\ MonitorSuspended
        /\ Becomes(call.manager)
        /\ UNCHANGED <<matcher_vars, mcp_vars, request, server_ready,
                       mongodb_integration, monitor, unhealthy_rounds>>

UnloadAgent(agent_id) ==
    LET call == unload_agent(manager_now, agent_id)
    IN  /\ MonitorSuspended
        /\ Becomes(call.manager)
        /\ monitor' = deleted_under(monitor, loaded_agents, agent_id)
        /\ UNCHANGED <<matcher_vars, mcp_vars, request, server_ready,
                       mongodb_integration, unhealthy_rounds>>

RestartAgent(agent_id) ==
    LET call == restart_agent(manager_now, agent_id)
    IN  /\ MonitorSuspended
        /\ Becomes(call.manager)
        /\ monitor' = deleted_under(monitor, loaded_agents, agent_id)
        /\ UNCHANGED <<matcher_vars, mcp_vars, request, server_ready,
                       mongodb_integration, unhealthy_rounds>>

MoveAgent(agent_id, target_folder) ==
    LET call == move_agent(manager_now, agent_id, target_folder)
    IN  /\ MonitorSuspended
        /\ Becomes(call.manager)
        /\ monitor' = IF call.returned
                      THEN deleted_under(monitor, loaded_agents, agent_id)
                      ELSE monitor
        /\ UNCHANGED <<matcher_vars, mcp_vars, request, server_ready,
                       mongodb_integration, unhealthy_rounds>>

(* background_agent_discovery, and the discovery of startup_event *)
DiscoverAgents ==
    /\ MonitorSuspended
    /\ Becomes(discover_agents(manager_now))
    /\ UNCHANGED <<matcher_vars, mcp_vars, request, server_ready, mongodb_integration,
                   monitor, unhealthy_rounds>>

sleeping == [pc |-> "sleep", error |-> Nothing, moved |-> {}, round |-> FALSE]

(* startup_event: discovery, the background tasks, server_ready *)
Startup ==
    /\ ~server_ready
    /\ Becomes(discover_agents(manager_now))
    /\ server_ready' = TRUE
    /\ monitor' = sleeping
    /\ UNCHANGED <<matcher_vars, mcp_vars, request, mongodb_integration,
                   unhealthy_rounds>>

(* an agent file is edited on disk *)
EditFile(agent_id, loads) ==
    /\ agent_files[agent_id].loads # loads
    /\ agent_files' = [agent_files EXCEPT ![agent_id].loads = loads]
    /\ UNCHANGED <<matcher_vars, mcp_vars, request, server_ready, mongodb_integration,
                   loaded_agents, failed_agents, agent_health_status,
                   agent_metadata_cache, monitor, unhealthy_rounds>>

(* what awaiting agent_instance.health_check() can do *)
HealthOutcomes == {"healthy", "unhealthy", "reports_failures", "raises"}

health_status(outcome) == IF outcome = "healthy" THEN "healthy" ELSE "unhealthy"

(* lines 341-346: the entry written from health_result *)
health_entry(outcome) ==
    [status |-> health_status(outcome),
     failure_count |-> IF outcome = "reports_failures"
                       THEN max_agent_failures ELSE 0]

(* lines 350-356: the except branch of health_check_agent *)
health_failure(status, agent_id) ==
    IF agent_id \in DOMAIN status
    THEN [status EXCEPT ![agent_id] =
            [status |-> "unhealthy", failure_count |-> @.failure_count + 1]]
    ELSE status

written(status, agent_id, outcome) ==
    (agent_id :> health_entry(outcome)) @@ status

(* the monitor wakes up on a ready server and health_check_all_agents *)
(* starts to iterate loaded_agents.keys()                             *)
MonitorWake ==
    /\ server_ready
    /\ monitor.pc = "sleep"
    /\ monitor' = [pc |-> "iterate", size |-> Len(loaded_agents), pos |-> 0,
                   keys |-> <<>>, results |-> <<>>, agent_id |-> ""]
    /\ UNCHANGED <<matcher_vars, mcp_vars, request, server_ready, mongodb_integration,
                   manager_vars, agent_files, unhealthy_rounds>>

(* the next key of the iteration: the dict has another size (RuntimeError, *)
(* caught by the monitor's except), has no more keys, or yields a key and  *)
(* health_check_agent awaits the agent's health_check()                    *)
MonitorNext ==
    /\ monitor.pc = "iterate"
    /\ monitor' =
         IF Len(loaded_agents) # monitor.size
         THEN [sleeping EXCEPT
                 !.error = Some("dictionary changed size during iteration")]
         ELSE IF monitor.pos >= Len(loaded_agents)
         THEN [monitor EXCEPT !.pc = "handle"]
         ELSE [monitor EXCEPT !.pc = "await", !.pos = @ + 1,
                              !.agent_id = loaded_agents[monitor.pos + 1]]
    /\ UNCHANGED <<matcher_vars, mcp_vars, request, server_ready, mongodb_integration,
                   manager_vars, agent_files, unhealthy_rounds>>

failure_count_of(manager, agent_id) ==
    IF agent_id \in DOMAIN manager.agent_health_status
    THEN manager.agent_health_status[agent_id].failure_count
    ELSE 0

(* health_check() is over: health_check_agent writes the status entry and *)
(* returns, health_check_all_agents stores the result                     *)
MonitorResume(outcome) ==
    /\ monitor.pc = "await"
    /\ outcome = "raises" =>
          failure_count_of(manager_now, monitor.agent_id) < MaxFailureCount
    /\ agent_health_status' =
         IF outcome = "raises"
         THEN health_failure(agent_health_status, monitor.agent_id)
         ELSE written(agent_health_status, monitor.agent_id, outcome)
    /\ monitor' = [monitor EXCEPT
                     !.pc = "iterate",
                     !.keys = set_key(@, monitor.agent_id),
                     !.results = (monitor.agent_id :> health_status(outcome)) @@ @]
    /\ UNCHANGED <<matcher_vars, mcp_vars, request, server_ready, mongodb_integration,
                   loaded_agents, failed_agents, agent_metadata_cache,
                   agent_files, unhealthy_rounds>>

over_threshold(manager, agent_id) ==
    failure_count_of(manager, agent_id) >= max_agent_failures

(* lines 406-414: the loop over health_results from its k-th item on *)
RECURSIVE handle_unhealthy(_, _, _, _)
handle_unhealthy(state, keys, results, k) ==
    IF k > Len(keys) THEN state
    ELSE LET agent_id == keys[k]
         IN  IF results[agent_id] = "unhealthy"
                /\ over_threshold(state.manager, agent_id)
             THEN handle_unhealthy(
                    [manager |-> move_agent(state.manager, agent_id,
                                            "inactive").manager,
                     moved |-> state.moved \cup {agent_id}],
                    keys, results, k + 1)
             ELSE handle_unhealthy(state, keys, results, k + 1)

(* the consecutive rounds in which the check of an agent was unhealthy *)
rounds_after(rounds, results) ==
    [aid \in ManagedAgents |->
        IF aid \in DOMAIN results /\ results[aid] = "unhealthy"
        THEN IF rounds[aid] < max_agent_failures THEN rounds[aid] + 1
             ELSE rounds[aid]
        ELSE 0]

MonitorHandle ==
    /\ monitor.pc = "handle"
    /\ LET handled == handle_unhealthy([manager |-> manager_now, moved |-> {}],
                                       monitor.keys, monitor.results, 1)
       IN  /\ Becomes(handled.manager)
           /\ monitor' = [sleeping EXCEPT !.moved = handled.moved,
                                          !.round = TRUE]
    /\ unhealthy_rounds' = rounds_after(unhealthy_rounds, monitor.results)
    /\ UNCHANGED <<matcher_vars, mcp_vars, request, server_ready, mongodb_integration>>

InitManager ==
    /\ NoMatcher
    /\ NoAgents
    /\ server_ready = FALSE
    /\ mongodb_integration = PyNone
    /\ loaded_agents = <<>>
    /\ failed_agents = {}
    /\ agent_health_status = <<>>
    /\ agent_metadata_cache = <<>>
    /\ agent_files \in [ManagedAgents -> [folder : Folders, loads : LoadOutcomes]]
    /\ monitor = sleeping
    /\ request = PyNone
    /\ unhealthy_rounds = [aid \in ManagedAgents |-> 0]

(* GET /api/agents (list_agents): the status reported for each agent *)
list_agents ==
    [aid \in loaded_ids(loaded_agents) \cup failed_agents
               \cup DOMAIN agent_metadata_cache |->
        IF aid \in failed_agents THEN "failed"
        ELSE IF aid \in loaded_ids(loaded_agents) THEN "loaded"
        ELSE "discovered"]

(* the operations of the manager, one after the other *)
NextManager ==
    \/ Startup
    \/ DiscoverAgents
    \/ \E agent_id \in ManagedAgents : LoadAgent(agent_id)
    \/ \E agent_id \in ManagedAgents : UnloadAgent(agent_id)
    \/ \E agent_id \in ManagedAgents : RestartAgent(agent_id)
    \/ \E agent_id \in ManagedAgents, target_folder \in Folders :
          MoveAgent(agent_id, target_folder)
    \/ \E agent_id \in ManagedAgents, loads \in LoadOutcomes :
          EditFile(agent_id, loads)

SpecManager == InitManager /\ [][NextManager]_vars

(* a started server: every agent file is in live and loads *)
InitMonitor ==
    /\ NoMatcher
    /\ NoAgents
    /\ server_ready = TRUE
    /\ mongodb_integration = PyNone
    /\ loaded_agents = GlobOrder
    /\ failed_agents = {}
    /\ agent_health_status = [aid \in ManagedAgents |-> healthy_entry]
    /\ agent_metadata_cache = [aid \in ManagedAgents |-> "live"]
    /\ agent_files = [aid \in ManagedAgents |-> [folder |-> "live", loads |-> "ok"]]
    /\ monitor = sleeping
    /\ request = PyNone
    /\ unhealthy_rounds = [aid \in ManagedAgents |-> 0]

(* the background monitor and the management requests served while it is *)
(* suspended                                                             *)
NextMonitor ==
    \/ MonitorWake
    \/ MonitorNext
    \/ \E outcome \in HealthOutcomes : MonitorResume(outcome)
    \/ MonitorHandle
    \/ \E agent_id \in ManagedAgents : UnloadAgent(agent_id)
    \/ \E agent_id \in ManagedAgents : RestartAgent(agent_id)
    \/ \E agent_id \in ManagedAgents, target_folder \in Folders :
          MoveAgent(agent_id, target_folder)

SpecMonitor == InitMonitor /\ [][NextMonitor]_vars

(* Vocabulary of the properties *)

ReturnedRows(found) == { found[k].row : k \in 1..Len(found) }

Returned == pc = "done" /\ IsReport(result)

Results == result.output.list

FieldQualifies(i, j) ==
    /\ ~skip_value(df.rows[i][j])
    /\ similarity(document_text, df.rows[i][j]) >= threshold

RowQualifies(i) == \E j \in 1..Len(df.columns) : FieldQualifies(i, j)

FirstQualifying(i) ==
    CHOOSE j \in 1..Len(df.columns) :
        FieldQualifies(i, j) /\ \A j0 \in 1..(j - 1) : ~FieldQualifies(i, j0)

RECURSIVE RowOrder(_, _)
RowOrder(i, S) ==
    IF i > Len(df.rows) THEN <<>>
    ELSE (IF i \in S THEN <<i>> ELSE <<>>) \o RowOrder(i + 1, S)

RowsIn(found) == [k \in 1..Len(found) |-> found[k].row]

----------------------------------------------------------------------------
(* C1: for thresholds t1 < t2, on the same query and dataset, the rows      *)
(* returned with t2 are among the rows returned with t1.  Here t1 is the    *)
(* threshold of the run and t2 any larger one; both calls return a report.  *)
C1_ThresholdMonotone ==
    Returned =>
        \A t2 \in Thresholds :
            t2 > threshold =>
                LET higher == run_plan(document_text, archive, t2)
                IN  higher.raised = "" =>
                        ReturnedRows(higher.matches) \subseteq ReturnedRows(Results)

(* C2: with a non-empty query and a dataset that loads, no exception leaves *)
(* plan(), whatever the column names and the field values.                  *)
C2_NoExceptionFromContent ==
    (document_text # <<>> /\ ~archive.unreadable) => (pc # "raised" /\ raised = "")

(* C3: the returned rows are exactly the rows with at least one non-empty  *)
(* field whose similarity clears the threshold.                            *)
C3_ExactlyQualifyingRows ==
    Returned =>
        ReturnedRows(Results) = { i \in 1..Len(df.rows) : RowQualifies(i) }

(* C4: the matches, while they are collected and in the report, are in the *)
(* dataset's row order: the sequence of their rows is the dataset's row    *)
(* order restricted to the rows matched, and each of them is a row with a  *)
(* field that clears the threshold.                                        *)
C4_OrderPreserved ==
    LET found == IF Returned THEN Results ELSE matches
    IN  /\ RowsIn(found) = RowOrder(1, ReturnedRows(found))
        /\ \A i \in ReturnedRows(found) : i \in 1..Len(df.rows) /\ RowQualifies(i)
        /\ Returned => Results = matches

C4_Witness ==
    /\ Returned
    /\ Len(Results) = 2
    /\ \E s1, s2 \in scored :
        /\ s1.hit /\ s2.hit
        /\ s1.row = Results[1].row /\ s2.row = Results[2].row
        /\ s1.similarity < s2.similarity

(* C5: no row appears twice among the matches, and the scan of a row stops *)
(* at its first qualifying field: no later field of that row is scored.    *)
C5_AtMostOncePerRow ==
    /\ \A k1, k2 \in 1..Len(matches) : matches[k1].row = matches[k2].row => k1 = k2
    /\ \A s1, s2 \in scored : (s1.row = s2.row /\ s1.hit) => s2.col <= s1.col
    /\ Returned => Results = matches

C5_Witness ==
    /\ Returned
    /\ \E k \in 1..Len(Results) :
        LET i == Results[k].row
        IN  /\ \A j \in 1..Len(df.columns) : FieldQualifies(i, j)
            /\ Cardinality({ k2 \in 1..Len(Results) : Results[k2].row = i }) = 1

(* C6: an empty query returns the "no query" dict: nothing is read or      *)
(* scored, nothing is raised, whatever the archive holds.                  *)
C6_EmptyQuery ==
    document_text = <<>> =>
        /\ pc \in {"start", "done"}
        /\ raised = "" /\ scored = {} /\ matches = <<>> /\ df = NoFrame
        /\ pc = "done" => result = [error |-> "No document_text provided."]

C6_Witness ==
    /\ document_text = <<>>
    /\ pc = "done"
    /\ result = [error |-> "No document_text provided."]
    /\ ~archive.unreadable
    /\ Len(archive.frame.rows) = MaxRows

(* C7: a whitespace-only query returns the "no query" dict and nothing is  *)
(* scored, whatever the threshold and the archive.                         *)
C7_WhitespaceQuery ==
    (document_text # <<>> /\ strip(document_text) = <<>> /\ pc = "done") =>
        (IsNoQuery(result) /\ scored = {} /\ matches = <<>>)

(* C8: matched_on of every match names the first field of its row, in      *)
(* column order, whose score is >= threshold, and no later field of the    *)
(* row is scored.                                                          *)
C8_FirstQualifyingField ==
    \A k \in 1..Len(matches) :
        LET i == matches[k].row
        IN  /\ RowQualifies(i)
            /\ matches[k].entry["matched_on"] = PyName(df.columns[FirstQualifying(i)])
            /\ \A s \in scored : s.row = i => s.col <= FirstQualifying(i)

(* C9: every match carries the similarity of the field its matched_on      *)
(* names as match_score, between the threshold and 100, and every field of *)
(* its row at its original value.                                          *)
C9_EntryContents ==
    \A k \in 1..Len(matches) :
        LET i == matches[k].row
            e == matches[k].entry
        IN  /\ \E j \in 1..Len(df.columns) :
                /\ e["matched_on"] = PyName(df.columns[j])
                /\ ~skip_value(df.rows[i][j])
                /\ e["match_score"] = PyNum(similarity(document_text, df.rows[i][j]))
                /\ similarity(document_text, df.rows[i][j]) \in threshold..100
            /\ \A j \in 1..Len(df.columns) : e[df.columns[j]] = df.rows[i][j]

(* C10: the similarity of a scored field is the larger of its token-set    *)
(* and partial scores, and the field is a hit exactly when that number is  *)
(* >= threshold.                                                           *)
C10_MaxAndInclusive ==
    \A s \in scored :
        LET value == df.rows[s.row][s.col]
            t == fuzz_scores[lower(document_text)][lower(str(value))][1]
            p == fuzz_scores[lower(document_text)][lower(str(value))][2]
        IN  /\ s.similarity >= t /\ s.similarity >= p /\ s.similarity \in {t, p}
            /\ s.hit <=> (s.similarity >= threshold)
            /\ (s.hit /\ Returned) => Results # <<>>

C10_Witness ==
    /\ Returned
    /\ \E s1, s2 \in scored :
        /\ s1.similarity = threshold - 1 /\ ~s1.hit
        /\ s2.similarity = threshold /\ s2.hit
        /\ s2.row \in ReturnedRows(Results)
        /\ LET value == df.rows[s2.row][s2.col]
           IN  fuzz_scores[lower(document_text)][lower(str(value))][2] = s2.similarity
               /\ fuzz_scores[lower(document_text)][lower(str(value))][1] < s2.similarity

----------------------------------------------------------------------------
(* Vocabulary of the claims on the natural key *)

TitleOf(found, k) == dict_get(found[k].entry, "title")

TitleCell(i) == df.rows[i][ColumnIndex(df, "title")]

HasTitle(v) == v.kind = "str"

(* C11, as stated: in every report no two results carry the same title     *)
(* value, a missing title counting as a value like any other.               *)
C11_NoTwoSameTitle ==
    (Returned /\ HasColumn(df, "title")) =>
        \A k1 \in 1..Len(Results) : \A k2 \in 1..Len(Results) :
            k1 < k2 => TitleOf(Results, k1) # TitleOf(Results, k2)

(* C11, amended: in every report no two results carry the same title when   *)
(* that title is present (not a missing value), and a qualifying row whose  *)
(* present title equals the title of a row returned before it is not in the *)
(* result.  Results whose title is missing are not deduplicated.            *)
C11_DedupByPresentTitle ==
    (Returned /\ HasColumn(df, "title")) =>
        /\ \A k1 \in 1..Len(Results) : \A k2 \in 1..Len(Results) :
               (k1 < k2 /\ HasTitle(TitleOf(Results, k1)))
                   => TitleOf(Results, k1) # TitleOf(Results, k2)
        /\ \A i \in 1..Len(df.rows) : \A i0 \in 1..(i - 1) :
               ( /\ RowQualifies(i)
                 /\ i0 \in ReturnedRows(Results)
                 /\ HasTitle(TitleCell(i))
                 /\ TitleCell(i) = TitleCell(i0) )
                   => i \notin ReturnedRows(Results)

C11_Witness ==
    /\ Returned
    /\ HasColumn(df, "title")
    /\ Len(df.rows) = 2
    /\ RowQualifies(1) /\ RowQualifies(2)
    /\ HasTitle(TitleCell(1)) /\ TitleCell(1) = TitleCell(2)
    /\ ReturnedRows(Results) = {1}

----------------------------------------------------------------------------
(* Vocabulary of the claims on the outcome of a call *)

Finished == pc \in {"done", "raised"}

Loads == ~archive.unreadable

NoMatchMarker == "No matches found."

BelowThreshold(frame) ==
    \A i \in 1..Len(frame.rows) : \A j \in 1..Len(frame.columns) :
        LET value == frame.rows[i][j]
        IN  (value.kind = "str" /\ strip(value.chars) # <<>>)
                => max(token_set_ratio(lower(document_text), lower(value.chars)),
                       partial_ratio(lower(document_text), lower(value.chars)))
                   < threshold

(* C12: when the dataset loads with at least one row and no field of any   *)
(* row reaches the threshold, the call ends by returning a report, not an   *)
(* exception and not the error outcome; the report holds no match and its   *)
(* output is the "No matches found." marker.                                *)
C12_NoMatchIsSuccess ==
    ( /\ Finished
      /\ document_text # <<>>
      /\ Loads
      /\ archive.frame.rows # <<>>
      /\ BelowThreshold(archive.frame) )
        => /\ Returned
           /\ raised = ""
           /\ matches = <<>>
           /\ result.output.list = <<>>
           /\ result.output.type = "str"
           /\ result.output.text = NoMatchMarker

C12_Witness ==
    /\ Returned
    /\ Len(df.rows) = 2
    /\ BelowThreshold(df)
    /\ \E s1 \in scored : \E s2 \in scored : s1.row = 1 /\ s2.row = 2
    /\ result.output.text = NoMatchMarker

(* C13: for a non-empty query, a dataset that loads with zero rows gives a  *)
(* report with an empty sequence of matches: no exception, no error         *)
(* outcome, and nothing is scored.                                          *)
C13_EmptyDataset ==
    ( /\ Finished
      /\ document_text # <<>>
      /\ Loads
      /\ archive.frame.rows = <<>> )
        => /\ Returned
           /\ raised = ""
           /\ ~IsNoQuery(result)
           /\ matches = <<>>
           /\ result.output.list = <<>>
           /\ scored = {}

C13_Witness ==
    /\ Returned
    /\ document_text # <<>>
    /\ df.columns # <<>>
    /\ df.rows = <<>>
    /\ result.output.list = <<>>

----------------------------------------------------------------------------
(* Vocabulary of the claim on empty fields *)

(* the characters of a column name *)
chars_of(c) ==
    CASE c = "a"           -> <<"a">>
      [] c = "title"       -> <<"t", "i", "t", "l", "e">>
      [] c = "body"        -> <<"b", "o", "d", "y">>
      [] c = "name"        -> <<"n", "a", "m", "e">>
      [] c = "matched_on"  -> <<"m", "a", "t", "c", "h", "e", "d", "_", "o", "n">>
      [] c = "match_score" -> <<"m", "a", "t", "c", "h", "_", "s", "c", "o", "r", "e">>

(* the string v is the column name c *)
Names(v, c) ==
    /\ v.kind = "str"
    /\ IF "name" \in DOMAIN v THEN v.name = c ELSE v.chars = chars_of(c)

EmptyCell(v) == v.kind = "nan" \/ (v.kind = "str" /\ \A k \in 1..Len(v.chars) : v.chars[k] = " ")

(* C15: a field whose value is missing or whitespace-only is never scored,  *)
(* the matched_on of a result never names a field that is empty in the      *)
(* result's row, and a row whose fields are all empty is not in the result. *)
C15_EmptyFieldsSkipped ==
    /\ \A s \in scored : ~EmptyCell(df.rows[s.row][s.col])
    /\ Returned =>
          \A k \in 1..Len(Results) :
              LET i == Results[k].row IN
              /\ \A j \in 1..Len(df.columns) :
                     EmptyCell(df.rows[i][j])
                         => ~Names(Results[k].entry.matched_on, df.columns[j])
              /\ \E j \in 1..Len(df.columns) : ~EmptyCell(df.rows[i][j])

----------------------------------------------------------------------------
(* C16: matching with the query in upper case and with the query in lower   *)
(* case gives the same results: the same rows, with the same matched_on and *)
(* match_score.  The call of the behaviour is the one in lower case.        *)
C16_CaseInsensitive ==
    (Returned /\ document_text = lower(document_text)) =>
        LET in_upper == run_plan(upper(document_text), archive, threshold)
        IN  /\ in_upper.raised = ""
            /\ in_upper.matches = Results

----------------------------------------------------------------------------
(* C17: matching with a query and with the same query padded by leading or  *)
(* trailing whitespace gives the same results: the same rows, with the same *)
(* matched_on and match_score.  The call of the behaviour is the padded one.*)
C17_PaddingInsignificant ==
    (Returned /\ strip(document_text) # document_text) =>
        LET unpadded == run_plan(strip(document_text), archive, threshold)
        IN  /\ unpadded.raised = ""
            /\ unpadded.matches = Results

----------------------------------------------------------------------------
(* Vocabulary of the claims on calls *)

LoadErrors == { "FileNotFoundError", "DatasetLoadError" }

WithoutTimestamp(r) == [k \in DOMAIN r \ {"timestamp"} |-> r[k]]

(* C14: when the archive is missing or unreadable, constructing the agent   *)
(* or calling plan() ends in an exception and no report is returned; a      *)
(* dataset that loads with zero rows is read without an exception and the   *)
(* call returns a report: the two outcomes differ.                          *)
C14_LoadFailureIsHardError ==
    [][ /\ (pc = "new" /\ archive = Missing)
            => (pc' = "raised" /\ raised' = "FileNotFoundError")
        /\ (pc = "read" /\ archive.unreadable)
            => (pc' = "raised" /\ raised' = "DatasetLoadError")
        /\ pc' = "raised"
            => (raised' \in LoadErrors /\ ~IsReport(result'))
        /\ (pc = "read" /\ ~archive.unreadable /\ archive.frame.rows = <<>>)
            => (pc' = "scan" /\ raised' = "")
        /\ (pc = "scan" /\ df.rows = <<>>)
            => (pc' = "done" /\ raised' = "" /\ IsReport(result'))
      ]_vars

C14_Witness ==
    /\ pc = "raised"
    /\ raised = "DatasetLoadError"
    /\ archive.unreadable
    /\ prev # PyNone
    /\ IsReport(prev.result)
    /\ prev.df.rows = <<>>

(* C18: two calls with the same query that read the same dataset return    *)
(* reports that are equal in every field but the timestamp.                 *)
C18_Idempotent ==
    ( /\ pc = "done"
      /\ prev # PyNone
      /\ prev.document_text = document_text
      /\ IsReport(prev.result) /\ IsReport(result)
      /\ prev.df = df )
        => WithoutTimestamp(result) = WithoutTimestamp(prev.result)

C18_Witness ==
    /\ pc = "done"
    /\ prev # PyNone
    /\ IsReport(prev.result) /\ IsReport(result)
    /\ prev.df = df
    /\ Len(Results) = 2
    /\ result.timestamp # prev.result.timestamp
    /\ WithoutTimestamp(result) = WithoutTimestamp(prev.result)

(* C19: a step of plan() changes neither the query, nor the archive, nor    *)
(* the agent's fields, nor the collection; the collection changes only by   *)
(* a step of the caller, after plan() has returned.                         *)
C19_NoSideEffects ==
    [][ /\ pc \in {"start", "read", "scan"}
            => UNCHANGED <<document_text, archive, agent, collection>>
        /\ collection' # collection
            => (pc = "done" /\ pc' = "done") ]_vars

C19_Witness ==
    /\ pc = "done"
    /\ calls = 2
    /\ IsReport(result)
    /\ collection = <<prev.result>>

----------------------------------------------------------------------------
(* Vocabulary of the claim on concurrent invocations *)

(* what plan() does with a query on a dataset snapshot when it runs alone *)
Alone(doc, frame) == run_plan(doc, [unreadable |-> FALSE, frame |-> frame], threshold)

SameReport(r, alone) ==
    /\ alone.raised = ""
    /\ WithoutTimestamp(r) = WithoutTimestamp(alone.result)

(* C20: in every interleaving of two invocations, a step of one leaves the  *)
(* other's locals and all shared data (archive, agent, cached client,       *)
(* collection) unchanged, and the report each returns is, but for the       *)
(* timestamp, the report of a run alone on the snapshot it read.            *)
C20_NoInterference ==
    [][ /\ (plan_vars' # plan_vars \/ other' # other) => UNCHANGED shared_vars
        /\ plan_vars' # plan_vars => other' = other
        /\ other' # other => plan_vars' = plan_vars
        /\ (pc' = "done" /\ IsReport(result'))
              => SameReport(result', Alone(document_text', df'))
        /\ (other'.pc = "done" /\ IsReport(other'.result))
              => SameReport(other'.result, Alone(other'.document_text, other'.df))
      ]_vars

C20_Witness ==
    /\ pc = "done" /\ other.pc = "done"
    /\ IsReport(result) /\ IsReport(other.result)
    /\ df # other.df
    /\ Results # <<>>
    /\ other.result.output.list # <<>>
    /\ result.timestamp > other.result.timestamp

----------------------------------------------------------------------------
(* C21: every call reads the archive as it is at that call: when a call     *)
(* returns, its report is, but for the timestamp, the report of a run on    *)
(* the file's present content, also when the file was edited after the      *)
(* call before; no row of an earlier version is in it.                      *)
C21_ReloadedEveryCall ==
    [][ /\ (pc = "read" /\ pc' = "scan") => df' = archive.frame
        /\ (pc = "scan" /\ pc' = "done")
              => /\ SameReport(result', Alone(document_text, archive.frame))
                 /\ \A k \in 1..Len(result'.output.list) :
                        LET m == result'.output.list[k]
                        IN  /\ m.row \in 1..Len(archive.frame.rows)
                            /\ m.entry.title = archive.frame.rows[m.row][1]
                            /\ m.entry.body = archive.frame.rows[m.row][2]
      ]_vars

C21_Witness ==
    /\ pc = "done"
    /\ prev # PyNone
    /\ IsReport(prev.result) /\ IsReport(result)
    /\ prev.result.output.list # <<>>
    /\ Results # <<>>
    /\ Len(prev.df.rows) > Len(df.rows)
    /\ archive.frame = df

----------------------------------------------------------------------------
(* Vocabulary of the claim on values that are not strings *)

(* the lowered text of a number or a boolean, spelled out *)
Spelled(v) ==
    CASE v = PyNum(7)       -> <<"7">>
      [] v = PyBool(TRUE)   -> <<"t", "r", "u", "e">>
      [] v = PyBool(FALSE)  -> <<"f", "a", "l", "s", "e">>

NotAString(v) == v.kind \in {"num", "bool"}

(* C22: a cell that holds a number or a boolean does not make plan() raise; *)
(* it is scored as its string representation, lowered, unless an earlier    *)
(* field of its row has qualified; and when it qualifies in a returned row  *)
(* the result carries the value itself as matched_value.                    *)
C22_NonStringsCoerced ==
    /\ raised # "" => (raised = "DatasetLoadError" /\ archive.unreadable)
    /\ Returned =>
          \A i \in 1..Len(df.rows) : \A j \in 1..Len(df.columns) :
              LET v == df.rows[i][j]
                  text == Spelled(v)
                  own == { s \in scored : s.row = i /\ s.col = j }
              IN  NotAString(v) =>
                    /\ \/ \E s \in own :
                              s.similarity =
                                  max(fuzz_pair(lower(document_text), text)[1],
                                      fuzz_pair(lower(document_text), text)[2])
                       \/ \E s \in scored : s.row = i /\ s.col < j /\ s.hit
                    /\ \A s \in own : \A k \in 1..Len(Results) :
                          (s.hit /\ Results[k].row = i)
                              => Results[k].entry.matched_value = v

C22_Witness ==
    /\ Returned
    /\ \E k \in 1..Len(Results) :
          /\ Results[k].entry.matched_value = PyNum(7)
          /\ Results[k].entry.matched_on = PyName("body")
(* the call that has just returned *)
Called(op) == reply # PyNone /\ reply.op = op

(* value is the dict given with the two keys process_message stamps *)
StampOf(value, given, self) ==
    /\ DOMAIN value = DOMAIN given \cup {"processed_by", "processed_at"}
    /\ value.processed_by = self
    /\ \A key \in DOMAIN given \ {"processed_by", "processed_at"} :
          value[key] = given[key]

(* C25: process_message never raises.  For a method without a registered   *)
(* handler it invokes no handler and returns status "error" with the       *)
(* available methods; when the handler raises it returns status "error"    *)
(* with the text of the exception; otherwise it returns what the handler   *)
(* returned, with processed_by = the agent's id when that is a dict.       *)
C25_ProcessMessageTotal ==
    Called("process_message") =>
        /\ reply.raised = Nothing
        /\ Len(delivered) = 1
        /\ IF reply.method \notin message_handlers[reply.self]
           THEN /\ ~delivered[1].invoked
                /\ reply.value.status = "error"
                /\ reply.value.available_methods = message_handlers[reply.self]
           ELSE /\ delivered[1].invoked
                /\ IF reply.outcome.raised # Nothing
                   THEN /\ reply.value.status = "error"
                        /\ reply.value.message = reply.outcome.raised
                   ELSE IF isinstance_dict(reply.outcome.value)
                   THEN StampOf(reply.value, reply.outcome.value, reply.self)
                   ELSE reply.value = reply.outcome.value

C25_Witness ==
    /\ Called("process_message")
    /\ reply.method \in message_handlers[reply.self]
    /\ reply.outcome.raised = Some("boom")
    /\ reply.raised = Nothing
    /\ reply.value.status = "error"

(* the registry of the caller has an entry for the id called *)
Registered(self, agent_id) ==
    /\ agent_registry[self] # PyNone
    /\ agent_id \in DOMAIN agent_registry[self].items

(* C26: call_agent never raises.  Called before set_agent_registry, with   *)
(* an empty registry or with an id the registry does not have, it returns  *)
(* a status "error" dict and delivers no message; otherwise it delivers    *)
(* exactly one message, sender = the caller's id and target = agent_id, to *)
(* the agent registered under agent_id and returns what that agent's       *)
(* process_message returns.                                                *)
C26_CallAgentTotal ==
    Called("call_agent") =>
        /\ reply.raised = Nothing
        /\ IF ~Registered(reply.self, reply.agent_id)
           THEN /\ delivered = <<>>
                /\ isinstance_dict(reply.value)
                /\ reply.value.status = "error"
           ELSE /\ Len(delivered) = 1
                /\ delivered[1].to = agent_registry[reply.self].items[reply.agent_id]
                /\ delivered[1].message.sender = Some(reply.self)
                /\ delivered[1].message.target = Some(reply.agent_id)
                /\ delivered[1].message.method = reply.method
                /\ reply.value =
                     process_message(delivered[1].to,
                                     message_handlers[delivered[1].to],
                                     delivered[1].message, reply.outcome).value

C26_Witness ==
    /\ Called("call_agent")
    /\ Registered(reply.self, reply.agent_id)
    /\ agent_registry[reply.self].items[reply.agent_id] # reply.agent_id
    /\ Len(delivered) = 1
    /\ delivered[1].invoked
    /\ reply.outcome.raised = Nothing
    /\ isinstance_dict(reply.outcome.value)
    /\ reply.value.processed_by = delivered[1].to

(* the request that has just been answered *)
Served(op) == request # PyNone /\ request.op = op

Answered == Served("process_command") /\ request.response.status_code = 200

Content == request.response.content

(* the command as the selection reads it *)
Normalised == strip(lower_pieces(request.command))

(* the agent of the first category, in the order math, weather, document, *)
(* email, calendar, that has a keyword in the command; "" when none has   *)
CategoryAgent ==
    IF any_word_in(MathWords, Normalised) THEN "math_agent"
    ELSE IF any_word_in(WeatherWords, Normalised) THEN "weather_agent"
    ELSE IF any_word_in(DocumentWords, Normalised) THEN "document_agent"
    ELSE IF any_word_in(EmailWords, Normalised) THEN "gmail_agent"
    ELSE IF any_word_in(CalendarWords, Normalised) THEN "calendar_agent"
    ELSE ""

NoAgentsAvailable ==
    /\ "available_agents" \in DOMAIN Content
    /\ Content.status = "error"
    /\ Content.message = <<"No agents available to process command">>

C23_AlwaysAStatus ==
    Served("process_command") =>
        IF server_ready
        THEN /\ request.response.status_code = 200
             /\ "status" \in DOMAIN Content
        ELSE request.response.status_code = 503

(* C28: whatever load_agent, unload_agent, restart_agent, move_agent and  *)
(* discover_agents have done, no agent id is both in loaded_agents and in *)
(* failed_agents, and list_agents reports every loaded agent as "loaded". *)
C28_LoadedXorFailed ==
    \A aid \in loaded_ids(loaded_agents) :
        /\ aid \notin failed_agents
        /\ list_agents[aid] = "loaded"

(* C30: restart_agent never loses an agent.  An agent that is loaded when *)
(* restart_agent is called is in loaded_agents, with a health-status      *)
(* entry, when it returns, whatever it returns; for an agent that is not  *)
(* loaded it returns False and leaves loaded_agents, failed_agents and    *)
(* agent_health_status as they were.                                      *)
C30_RestartKeepsAgent ==
    [][ \A aid \in ManagedAgents :
          RestartAgent(aid) =>
              IF aid \in loaded_ids(loaded_agents)
              THEN /\ aid \in loaded_ids(loaded_agents')
                   /\ aid \in DOMAIN agent_health_status'
              ELSE /\ ~restart_agent(manager_now, aid).returned
                   /\ UNCHANGED <<loaded_agents, failed_agents,
                                  agent_health_status>> ]_vars

(* C29: however health_check_agent and health_check_all_agents of the     *)
(* monitor interleave with unload_agent, restart_agent and move_agent of  *)
(* the management requests, agent_health_status has entries only for      *)
(* agents in loaded_agents, and health_check_all_agents does not fail     *)
(* because loaded_agents changed while it was iterated.                   *)
C29_StatusOnlyForLoaded ==
    /\ DOMAIN agent_health_status \subseteq loaded_ids(loaded_agents)
    /\ monitor.pc = "sleep" => monitor.error = Nothing

(* C27: a loaded agent whose health check was unhealthy in                *)
(* max_agent_failures consecutive rounds of the monitor is moved to       *)
(* inactive by the monitor in that round and is then not in               *)
(* loaded_agents; the monitor moves no agent with fewer consecutive       *)
(* unhealthy rounds.                                                      *)
C27_MovedAtThreshold ==
    [][ MonitorHandle =>
          \A aid \in ManagedAgents :
              /\ unhealthy_rounds'[aid] >= max_agent_failures =>
                    (aid \in monitor'.moved /\ aid \notin loaded_ids(loaded_agents'))
              /\ aid \in monitor'.moved =>
                    unhealthy_rounds'[aid] >= max_agent_failures ]_vars

====
